---- MODULE Spec2Model ----
(***************************************************************************)
(* A model of src/src/Container.js: a dependency-injection container with  *)
(* three maps (parameters, services, cache) and the operations register,   *)
(* registerDefinition, registerParameter, fetch and getTaggedService.      *)
(*                                                                         *)
(* JavaScript values are records [t, v]: t is the type tag and v the       *)
(* payload.  A Map is a sequence of entries [key, value] in insertion      *)
(* order.  Object identity (the result of `new`) is an id drawn from the   *)
(* allocation counter nextId.                                              *)
(***************************************************************************)
EXTENDS Integers, Sequences, FiniteSets, TLC

\* ------------------------------------------------------------------ bounds

\* Fetches are made while fewer than this many objects have been constructed:
\* MaxInst where the claims are about the instances, MaxBuilt elsewhere.
MaxInst == 4
MaxBuilt == 2

\* Depth of nested fetch calls the call stack holds before the engine raises
\* RangeError (maximum call stack size exceeded).
StackLimit == 4

\* ------------------------------------------------------------ JS values

Str(s) == [t |-> "string", v |-> s]
Bool(b) == [t |-> "boolean", v |-> b]
Fn(n) == [t |-> "function", v |-> n]
Arr(s) == [t |-> "array", v |-> s]
Null == [t |-> "null", v |-> ""]
Undefined == [t |-> "undefined", v |-> ""]

\* The object `new Constructor(...args)` builds: its class, the arguments the
\* constructor received, and its identity.
Obj(cls, args, id) == [t |-> "object", v |-> [cls |-> cls, args |-> args, id |-> id]]

\* Truthiness of a value, as `if (x)` and `x && y` test it.
Truthy(x) ==
  CASE x.t = "boolean" -> x.v
    [] x.t = "undefined" -> FALSE
    [] x.t = "null" -> FALSE
    [] x.t = "string" -> x.v # ""
    [] OTHER -> TRUE

\* A default parameter value: used when the argument is undefined.
Default(x, d) == IF x = Undefined THEN d ELSE x

\* A property read: undefined when the object has no such property.
Prop(obj, p) == IF p \in DOMAIN obj THEN obj[p] ELSE Undefined

\* ------------------------------------------------------------------ Map

MapHas(m, k) == \E i \in 1..Len(m) : m[i].key = k

MapGet(m, k) == m[CHOOSE i \in 1..Len(m) : m[i].key = k].value

MapSet(m, k, x) ==
  IF MapHas(m, k)
  THEN [i \in 1..Len(m) |-> IF m[i].key = k THEN [key |-> k, value |-> x] ELSE m[i]]
  ELSE Append(m, [key |-> k, value |-> x])

MapValues(m) == [i \in 1..Len(m) |-> m[i].value]

MapKeys(m) == {m[i].key : i \in 1..Len(m)}

\* --------------------------------------------------------------- inputs

Names == {"a", "b", "c"}

\* Plain values, an anonymous function and a named class.
Logger == Fn("Logger")
Values == {Str("localhost"), Fn(""), Logger}
Classes == {Logger}

DepLists == {<<>>, <<"a">>, <<"b">>, <<"b", "c">>}
DepArgs == {Undefined} \cup {Arr(d) : d \in DepLists}
TagArgs == {Undefined, Null, Str("core")}
SharedArgs == {Undefined, Bool(TRUE), Bool(FALSE)}
QueryTags == {Null, Str("core"), Str("web")}

\* The identifier `name` that resolve reads is not declared in the module: it
\* resolves to the host's global (window.name, the empty string) or is
\* unresolvable, and then the read throws ReferenceError.
Unresolvable == [t |-> "unresolvable", v |-> ""]
GlobalNames == {Unresolvable, Str("")}

\* ---------------------------------------------------------------- state

VARIABLES
  parameters,   \* this.parameters
  services,     \* this.services
  cache,        \* this.cache
  globalName,   \* what the free identifier `name` resolves to in the host
  nextId,       \* identity of the next object `new` builds
  last,         \* the last call made on the container and how it ended
  registered,   \* history: name -> the arguments of its successful registration
  returned      \* history: name -> the objects fetch(name) returned, in order

vars == <<parameters, services, cache, globalName, nextId, last, registered, returned>>

\* What is remembered of a successful registration: the kind of call, the
\* arguments as the caller gave them (Undefined when omitted), and nth, the
\* number of services registered so far, this one included.
Registration(kind, value, dependencies, tag, shared, nth) ==
  [kind |-> kind, value |-> value, dependencies |-> dependencies,
   tag |-> tag, shared |-> shared, nth |-> nth]

NotRegistered == Registration("none", Undefined, Undefined, Undefined, Undefined, 0)

\* A call and its outcome: status is "return" or the name of the error
\* thrown, result the value returned or the payload of the error, log the
\* nested fetches, returns and constructions the call made.
Called(op, name, attempt, tag, status, result, log) ==
  [op |-> op, name |-> name, attempt |-> attempt, tag |-> tag,
   status |-> status, result |-> result, log |-> log]

Init ==
  /\ parameters = <<>>
  /\ services = <<>>
  /\ cache = <<>>
  /\ globalName \in GlobalNames
  /\ nextId = 0
  /\ last = Called("none", "", "", Undefined, "return", Undefined, <<>>)
  /\ registered = [n \in Names |-> NotRegistered]
  /\ returned = [n \in Names |-> <<>>]

\* ----------------------------------------------------- fetch and resolve

\* A nested call's outcome, with the part of the state it threads through:
\* the cache, the allocation counter and the log.
Return(x, st) == [status |-> "return", result |-> x, st |-> st]
Throw(err, x, st) == [status |-> err, result |-> x, st |-> st]

Logged(st, ev, name, value, depth) ==
  [st EXCEPT !.log = Append(@, [ev |-> ev, name |-> name, value |-> value, depth |-> depth])]

RECURSIVE Fetch(_, _, _)
RECURSIVE Resolve(_, _, _)
RECURSIVE MapFetch(_, _, _, _, _)
RECURSIVE MapFetchIgnoresErrors(_, _, _, _, _)
RECURSIVE MapFetchKeepsGoing(_, _, _, _, _)

RECURSIVE MapFetchReversed(_, _, _, _, _)

\* Variant of MapFetch: each fetched value is put in front of the earlier ones.
MapFetchReversed(deps, i, acc, st, depth) ==
  IF i > Len(deps) THEN Return(acc, st)
  ELSE LET r == Fetch(deps[i], st, depth + 1)
       IN IF r.status # "return" THEN r
          ELSE MapFetchReversed(deps, i + 1, <<r.result>> \o acc, r.st, depth)

\* Variant of MapFetch: a dependency that throws is passed on as undefined.
MapFetchIgnoresErrors(deps, i, acc, st, depth) ==
  IF i > Len(deps) THEN Return(acc, st)
  ELSE LET r == Fetch(deps[i], st, depth + 1)
       IN IF r.status # "return"
          THEN MapFetchIgnoresErrors(deps, i + 1, Append(acc, Undefined), r.st, depth)
          ELSE MapFetchIgnoresErrors(deps, i + 1, Append(acc, r.result), r.st, depth)

\* Variant of MapFetch: the remaining dependencies are fetched before the
\* first error is thrown.
MapFetchKeepsGoing(deps, i, acc, st, depth) ==
  IF i > Len(deps) THEN Return(acc, st)
  ELSE LET r == Fetch(deps[i], st, depth + 1)
       IN IF r.status # "return"
          THEN [r EXCEPT !.st = MapFetchKeepsGoing(deps, i + 1, acc, r.st, depth).st]
          ELSE MapFetchKeepsGoing(deps, i + 1, Append(acc, r.result), r.st, depth)

\* definition.dependencies.map(this.fetch): the dependencies are fetched from
\* left to right, one frame deeper, and the first one that throws ends the map.
MapFetch(deps, i, acc, st, depth) ==
  IF i > Len(deps) THEN Return(acc, st)
  ELSE LET r == Fetch(deps[i], st, depth + 1)
       IN IF r.status # "return" THEN r
          ELSE MapFetch(deps, i + 1, Append(acc, r.result), r.st, depth)

\* Variant of Construct: the instance is cached whatever the shared flag says.
ConstructCached(definition, shared, args, st, depth) ==
  LET service == Obj(definition.classname.v, args, st.nextId)
      built == Logged([st EXCEPT !.nextId = @ + 1], "new", definition.name, Arr(args), depth)
  IN Return(service, [built EXCEPT !.cache = MapSet(@, definition.name, service)])

\* new Constructor(...dependencies), and the cache entry of a shared definition.
Construct(definition, shared, args, st, depth) ==
  LET service == Obj(definition.classname.v, args, st.nextId)
      built == Logged([st EXCEPT !.nextId = @ + 1], "new", definition.name, Arr(args), depth)
  IN Return(service,
            IF Truthy(shared)
            THEN [built EXCEPT !.cache = MapSet(@, definition.name, service)]
            ELSE built)

Resolve(definition, st, depth) ==
  LET shared == Prop(definition, "shared")
  IN IF Truthy(shared) /\ globalName = Unresolvable
     THEN Throw("ReferenceError", Str("name"), st)
     ELSE IF Truthy(shared) /\ MapHas(st.cache, globalName.v)
     THEN Return(MapGet(st.cache, globalName.v), st)
     ELSE LET deps == MapFetch(definition.dependencies.v, 1, <<>>, st, depth)
          IN IF deps.status # "return" THEN deps
             ELSE Construct(definition, shared, deps.result, deps.st, depth)

\* Variant of Fetch: a missing key yields undefined instead of an error.
FetchUndefinedWhenMissing(name, st, depth) ==
  IF depth > StackLimit THEN Throw("RangeError", Str(name), st)
  ELSE LET entered == Logged(st, "fetch", name, Undefined, depth)
           r == IF MapHas(services, name)
                THEN Resolve(MapGet(services, name), entered, depth)
                ELSE IF MapHas(parameters, name)
                THEN Return(MapGet(parameters, name), entered)
                ELSE Return(Undefined, entered)
       IN IF r.status = "return"
          THEN [r EXCEPT !.st = Logged(@, "return", name, r.result, depth)]
          ELSE r

\* Variant of Fetch: a parameter is looked up and its key returned.
FetchReturnsKey(name, st, depth) ==
  IF depth > StackLimit THEN Throw("RangeError", Str(name), st)
  ELSE LET entered == Logged(st, "fetch", name, Undefined, depth)
           r == IF MapHas(services, name)
                THEN Resolve(MapGet(services, name), entered, depth)
                ELSE IF MapHas(parameters, name)
                THEN Return(Str(name), entered)
                ELSE Throw("ContainerNotFoundError", Str(name), entered)
       IN IF r.status = "return"
          THEN [r EXCEPT !.st = Logged(@, "return", name, r.result, depth)]
          ELSE r

\* Variant of Fetch: an exhausted call stack is caught and yields undefined.
FetchCatchesOverflow(name, st, depth) ==
  IF depth > StackLimit THEN Return(Undefined, st)
  ELSE LET entered == Logged(st, "fetch", name, Undefined, depth)
           r == IF MapHas(services, name)
                THEN Resolve(MapGet(services, name), entered, depth)
                ELSE IF MapHas(parameters, name)
                THEN Return(MapGet(parameters, name), entered)
                ELSE Throw("ContainerNotFoundError", Str(name), entered)
       IN IF r.status = "return"
          THEN [r EXCEPT !.st = Logged(@, "return", name, r.result, depth)]
          ELSE r

Fetch(name, st, depth) ==
  IF depth > StackLimit THEN Throw("RangeError", Str(name), st)
  ELSE LET entered == Logged(st, "fetch", name, Undefined, depth)
           r == IF MapHas(services, name)
                THEN Resolve(MapGet(services, name), entered, depth)
                ELSE IF MapHas(parameters, name)
                THEN Return(MapGet(parameters, name), entered)
                ELSE Throw("ContainerNotFoundError", Str(name), entered)
       IN IF r.status = "return"
          THEN [r EXCEPT !.st = Logged(@, "return", name, r.result, depth)]
          ELSE r

\* ---------------------------------------------------------- registration

\* Variant of IsConstructor: every function counts, named or not.
IsConstructorOfAnyFunction(classname) == classname.t = "function"

IsConstructor(classname) == classname.t = "function" /\ classname.v # ""

\* ensureUniqueness returns, or throws the duplicate error with the name and
\* the kind of the registry that holds it.
Duplicate(name, kind) ==
  [status |-> "ContainerDuplicateError", result |-> [name |-> name, kind |-> kind]]

\* Variant of EnsureUniqueness: only the parameters are looked at.
EnsureUniquenessOfParameters(name) ==
  IF MapHas(parameters, name) THEN Duplicate(name, "parameter")
  ELSE [status |-> "return", result |-> Undefined]

\* Variant of EnsureUniqueness: both errors name the same registry.
EnsureUniquenessOneKind(name) ==
  IF MapHas(parameters, name) THEN Duplicate(name, "parameter")
  ELSE IF MapHas(services, name) THEN Duplicate(name, "parameter")
  ELSE [status |-> "return", result |-> Undefined]

EnsureUniqueness(name) ==
  IF MapHas(parameters, name) THEN Duplicate(name, "parameter")
  ELSE IF MapHas(services, name) THEN Duplicate(name, "service")
  ELSE [status |-> "return", result |-> Undefined]

\* The outcome of a registration: how it ended and the two registries after it.
Registered(unique, params, defs) ==
  [status |-> unique.status, result |-> unique.result,
   parameters |-> params, services |-> defs]

\* Variant of RegisterDefinition: the record stored carries the shared flag.
RegisterDefinitionWithShared(name, classname, dependenciesArg, tagArg, sharedArg) ==
  LET unique == EnsureUniqueness(name)
  IN IF unique.status # "return" THEN Registered(unique, parameters, services)
     ELSE Registered(unique, parameters,
                     MapSet(services, name,
                            [classname |-> classname, name |-> name,
                             dependencies |-> Default(dependenciesArg, Arr(<<>>)),
                             tag |-> Default(tagArg, Null),
                             shared |-> Default(sharedArg, Bool(TRUE))]))

\* Variant of RegisterDefinition: the definition is stored without the check.
RegisterDefinitionOverwrites(name, classname, dependenciesArg, tagArg, sharedArg) ==
  Registered([status |-> "return", result |-> Undefined], parameters,
             MapSet(services, name,
                    [classname |-> classname, name |-> name,
                     dependencies |-> Default(dependenciesArg, Arr(<<>>)),
                     tag |-> Default(tagArg, Null)]))

\* Variant of RegisterDefinition: a dependency that is not registered yet is
\* refused with the not-found error.
RegisterDefinitionChecksDependencies(name, classname, dependenciesArg, tagArg, sharedArg) ==
  LET dependencies == Default(dependenciesArg, Arr(<<>>))
      tag == Default(tagArg, Null)
      unique == EnsureUniqueness(name)
      missing == {i \in 1..Len(dependencies.v) :
                    /\ ~MapHas(services, dependencies.v[i])
                    /\ ~MapHas(parameters, dependencies.v[i])}
  IN IF unique.status # "return" THEN Registered(unique, parameters, services)
     ELSE IF missing # {}
     THEN Registered([status |-> "ContainerNotFoundError",
                      result |-> Str(dependencies.v[CHOOSE i \in missing : TRUE])],
                     parameters, services)
     ELSE Registered(unique, parameters,
                     MapSet(services, name,
                            [classname |-> classname, name |-> name,
                             dependencies |-> dependencies, tag |-> tag]))

RegisterDefinition(name, classname, dependenciesArg, tagArg, sharedArg) ==
  LET dependencies == Default(dependenciesArg, Arr(<<>>))
      tag == Default(tagArg, Null)
      shared == Default(sharedArg, Bool(TRUE))
      unique == EnsureUniqueness(name)
  IN IF unique.status # "return" THEN Registered(unique, parameters, services)
     ELSE Registered(unique, parameters,
                     MapSet(services, name,
                            [classname |-> classname, name |-> name,
                             dependencies |-> dependencies, tag |-> tag]))

\* Variant of RegisterParameter: the value is stored before the check.
RegisterParameterSetsFirst(name, value) ==
  Registered(EnsureUniqueness(name), MapSet(parameters, name, value), services)

RegisterParameter(name, value) ==
  LET unique == EnsureUniqueness(name)
  IN IF unique.status # "return" THEN Registered(unique, parameters, services)
     ELSE Registered(unique, MapSet(parameters, name, value), services)

Register(name, value, dependenciesArg, tagArg, sharedArg) ==
  LET dependencies == Default(dependenciesArg, Arr(<<>>))
      tag == Default(tagArg, Null)
      shared == Default(sharedArg, Bool(TRUE))
  IN IF IsConstructor(value)
     THEN RegisterDefinition(name, value, dependencies, tag, shared)
     ELSE RegisterParameter(name, value)

\* ------------------------------------------------------ getTaggedService

\* Variant of GetTaggedService: the matching definitions, newest first.
GetTaggedServiceNewestFirst(tag) ==
  LET values == MapValues(services)
      F[i \in 0..Len(values)] ==
        IF i = 0 THEN <<>>
        ELSE IF values[i].tag = tag THEN <<values[i]>> \o F[i - 1] ELSE F[i - 1]
  IN Arr(F[Len(values)])

GetTaggedService(tag) ==
  LET values == MapValues(services)
      F[i \in 0..Len(values)] ==
        IF i = 0 THEN <<>>
        ELSE IF values[i].tag = tag THEN Append(F[i - 1], values[i]) ELSE F[i - 1]
  IN Arr(F[Len(values)])

\* ---------------------------------------------------------------- calls

ServicesRegistered == Cardinality({n \in Names : registered[n].kind = "service"})

\* The state after a registration call, given its outcome r.
RegistrationDone(op, name, kind, r, value, dependenciesArg, tagArg, sharedArg) ==
  /\ parameters' = r.parameters
  /\ services' = r.services
  /\ last' = Called(op, name, kind, Undefined, r.status, r.result, <<>>)
  /\ registered' =
       IF r.status # "return" THEN registered
       ELSE [registered EXCEPT ![name] =
               IF kind = "service"
               THEN Registration(kind, value, dependenciesArg, tagArg, sharedArg,
                                 ServicesRegistered + 1)
               ELSE Registration(kind, value, Undefined, Undefined, Undefined, 0)]
  /\ UNCHANGED <<cache, globalName, nextId, returned>>

RegisterCall(name, value, dependenciesArg, tagArg, sharedArg) ==
  RegistrationDone("register", name,
                   IF IsConstructor(value) THEN "service" ELSE "parameter",
                   Register(name, value, dependenciesArg, tagArg, sharedArg),
                   value, dependenciesArg, tagArg, sharedArg)

RegisterDefinitionCall(name, classname, dependenciesArg, tagArg, sharedArg) ==
  RegistrationDone("registerDefinition", name, "service",
                   RegisterDefinition(name, classname, dependenciesArg, tagArg, sharedArg),
                   classname, dependenciesArg, tagArg, sharedArg)

RegisterParameterCall(name, value) ==
  RegistrationDone("registerParameter", name, "parameter",
                   RegisterParameter(name, value),
                   value, Undefined, Undefined, Undefined)

FetchCall(name, budget) ==
  LET r == Fetch(name, [cache |-> cache, nextId |-> nextId, log |-> <<>>], 1)
  IN /\ nextId < budget
     /\ cache' = r.st.cache
     /\ nextId' = r.st.nextId
     /\ last' = Called("fetch", name, "", Undefined, r.status, r.result, r.st.log)
     /\ returned' = IF r.status = "return" /\ MapHas(services, name)
                    THEN [returned EXCEPT ![name] = Append(@, r.result)]
                    ELSE returned
     /\ UNCHANGED <<parameters, services, globalName, registered>>

\* Variant of GetTaggedServiceCall: the definitions handed out are taken out
\* of the services.
GetTaggedServiceCallConsuming(tag) ==
  /\ last' = Called("getTaggedService", "", "", tag, "return", GetTaggedService(tag), <<>>)
  /\ services' = SelectSeq(services, LAMBDA e : e.value.tag # tag)
  /\ UNCHANGED <<parameters, cache, globalName, nextId, registered, returned>>

GetTaggedServiceCall(tag) ==
  /\ last' = Called("getTaggedService", "", "", tag, "return", GetTaggedService(tag), <<>>)
  /\ UNCHANGED <<parameters, services, cache, globalName, nextId, registered, returned>>

\* The calls a client may make, with arguments drawn from the given sets.
Calls(names, values, classes, depArgs, tagArgs, sharedArgs, queryTags, budget) ==
  \/ \E name \in names, value \in values, d \in depArgs, tag \in tagArgs, shared \in sharedArgs :
       RegisterCall(name, value, d, tag, shared)
  \/ \E name \in names, classname \in classes, d \in depArgs, tag \in tagArgs, shared \in sharedArgs :
       RegisterDefinitionCall(name, classname, d, tag, shared)
  \/ \E name \in names, value \in values : RegisterParameterCall(name, value)
  \/ \E name \in names : FetchCall(name, budget)
  \/ \E tag \in queryTags : GetTaggedServiceCall(tag)

\* Registration and lookup by name: every kind of value, no dependencies.
Next == Calls(Names, Values, Classes, {Undefined}, {Undefined}, {Undefined}, {Null}, MaxBuilt)

Spec == Init /\ [][Next]_vars

\* Lifetimes: two names, services shared, transient and by default, one of
\* them depending on the other.
NextLifetime ==
  Calls({"a", "b"}, {Str("localhost"), Logger}, Classes, {Undefined, Arr(<<"b">>)},
        {Undefined}, SharedArgs, {Null}, MaxInst)

SpecLifetime == Init /\ [][NextLifetime]_vars

\* Wiring: services with every dependency list of DepLists.
NextWiring ==
  Calls(Names, {Str("localhost")}, Classes, DepArgs, {Undefined}, {Undefined}, {Null}, MaxBuilt)

SpecWiring == Init /\ [][NextWiring]_vars

\* Tags: services with and without a tag, and the queries by tag.
NextTags ==
  Calls(Names, {Str("localhost")}, Classes, {Undefined}, TagArgs, {Undefined}, QueryTags, MaxBuilt)

SpecTags == Init /\ [][NextTags]_vars

\* ---------------------------------------------------------------- claims

IsService(n) == registered[n].kind = "service"
IsParameter(n) == registered[n].kind = "parameter"

\* The shared flag a registration asked for: true when the argument was omitted.
AskedShared(n) == Default(registered[n].shared, Bool(TRUE)) = Bool(TRUE)

AllDistinct(seq) == \A i, j \in 1..Len(seq) : i # j => seq[i] # seq[j]

RegistrationOps == {"register", "registerDefinition", "registerParameter"}

\* C1: every fetch of a service registered as shared returns the instance the
\* first successful fetch of it returned.
C1_SharedFetchReturnsFirstInstance ==
  \A n \in Names :
    IsService(n) /\ AskedShared(n) =>
      \A i \in 1..Len(returned[n]) : returned[n][i] = returned[n][1]

\* C2: a service registered with shared = false is never in the cache, the
\* instances its fetches returned are pairwise distinct, and a fetch of it
\* that returns has invoked the factory and returns the object just built.
C2_TransientFetchBuildsNewInstance ==
  \A n \in Names :
    IsService(n) /\ ~AskedShared(n) =>
      /\ ~MapHas(cache, n)
      /\ AllDistinct(returned[n])
      /\ last.op = "fetch" /\ last.name = n /\ last.status = "return" =>
           /\ last.result.t = "object"
           /\ \E k \in 1..Len(last.log) :
                last.log[k] = [ev |-> "new", name |-> n,
                               value |-> Arr(last.result.v.args), depth |-> 1]

C2_Witness ==
  \E n \in Names :
    /\ IsService(n) /\ registered[n].shared = Bool(FALSE)
    /\ Len(returned[n]) >= 2
    /\ last.op = "fetch" /\ last.name = n /\ last.status = "return"

\* C3: the definition record stored for a registered service carries the
\* shared flag the caller asked for (true when omitted), and the factory,
\* name, dependencies and tag of the call.
C3_DefinitionKeepsSharedFlag ==
  \A n \in Names :
    IsService(n) =>
      /\ MapHas(services, n)
      /\ Prop(MapGet(services, n), "shared") = Default(registered[n].shared, Bool(TRUE))
      /\ MapGet(services, n).classname = registered[n].value
      /\ MapGet(services, n).name = n
      /\ MapGet(services, n).dependencies = Default(registered[n].dependencies, Arr(<<>>))
      /\ MapGet(services, n).tag = Default(registered[n].tag, Null)

\* C4: the keys of the parameters and the keys of the services are disjoint.
C4_RegistriesDisjoint == MapKeys(parameters) \cap MapKeys(services) = {}

C4_Witness ==
  /\ parameters # <<>> /\ services # <<>>
  /\ last.op \in RegistrationOps /\ last.status = "ContainerDuplicateError"

\* C5: a registration under a name that is already registered throws the
\* duplicate error and leaves parameters, services and cache as they were.
C5_DuplicateRegistrationChangesNothing ==
  [][(/\ last'.op \in RegistrationOps
      /\ (MapHas(parameters, last'.name) \/ MapHas(services, last'.name)))
     => (/\ last'.status = "ContainerDuplicateError"
         /\ parameters' = parameters
         /\ services' = services
         /\ cache' = cache)]_vars

C5_Witness ==
  /\ last.op = "register" /\ last.attempt = "service"
  /\ last.status = "ContainerDuplicateError"
  /\ IsParameter(last.name)
  /\ MapGet(parameters, last.name) = registered[last.name].value

\* C6: the duplicate error carries the name and the kind of the registry that
\* holds it, whatever kind of registration was attempted.
C6_DuplicateErrorNamesHoldingRegistry ==
  last.status = "ContainerDuplicateError" =>
    /\ last.result.name = last.name
    /\ last.result.kind \in {"parameter", "service"}
    /\ last.result.kind = "parameter" <=> MapHas(parameters, last.name)
    /\ last.result.kind = "service" <=> MapHas(services, last.name)

C6_Witness ==
  /\ last.status = "ContainerDuplicateError"
  /\ last.attempt = "parameter"
  /\ last.result.kind = "service"

\* C7: fetch of a name in neither registry throws the not-found error with
\* that name and leaves parameters, services and cache as they were.
C7_FetchOfUnknownNameThrows ==
  [][(/\ last'.op = "fetch"
      /\ ~MapHas(parameters, last'.name)
      /\ ~MapHas(services, last'.name))
     => (/\ last'.status = "ContainerNotFoundError"
         /\ last'.result = Str(last'.name)
         /\ parameters' = parameters
         /\ services' = services
         /\ cache' = cache)]_vars

C7_Witness ==
  /\ last.op = "fetch" /\ last.status = "ContainerNotFoundError"
  /\ registered[last.name].kind = "none"
  /\ parameters # <<>> /\ services # <<>>

\* C8: fetch of a registered parameter returns the value it was registered with.
C8_ParameterFetchReturnsStoredValue ==
  last.op = "fetch" =>
    (IsParameter(last.name) =>
       /\ last.status = "return"
       /\ last.result = registered[last.name].value)

C8_Witness ==
  /\ last.op = "fetch" /\ IsParameter(last.name)
  /\ last.result = Logger
  /\ \E n \in Names : IsParameter(n) /\ registered[n].value = Str("localhost")
  /\ services # <<>>

\* The fetch event that opened the frame in which event p of the log happened.
FrameEntry(log, p) ==
  CHOOSE q \in 1..(p - 1) :
    /\ log[q].ev = "fetch" /\ log[q].depth = log[p].depth
    /\ \A r \in (q + 1)..(p - 1) : ~(log[r].ev = "fetch" /\ log[r].depth = log[p].depth)

\* The fetches that returned one frame below event p, since its frame opened.
ChildReturns(log, p) ==
  LET q == FrameEntry(log, p)
      F[i \in q..(p - 1)] ==
        IF i = q THEN <<>>
        ELSE IF log[i].ev = "return" /\ log[i].depth = log[p].depth + 1
             THEN Append(F[i - 1], log[i])
             ELSE F[i - 1]
  IN F[p - 1]

\* C9: the factory of a service registered with dependencies d1..dk receives k
\* arguments, the i-th being what the i-th nested fetch, of di, returned.
C9_FactoryReceivesDependenciesInOrder ==
  /\ \A p \in 1..Len(last.log) :
       last.log[p].ev = "new" =>
         LET deps == Default(registered[last.log[p].name].dependencies, Arr(<<>>)).v
             args == last.log[p].value.v
             kids == ChildReturns(last.log, p)
         IN /\ Len(args) = Len(deps)
            /\ Len(kids) = Len(deps)
            /\ \A i \in 1..Len(deps) : kids[i].name = deps[i] /\ args[i] = kids[i].value
  /\ last.op = "fetch" /\ last.status = "return" /\ IsService(last.name) =>
       /\ Len(last.log) >= 2
       /\ last.log[Len(last.log) - 1].ev = "new"
       /\ last.log[Len(last.log) - 1].name = last.name
       /\ last.result.v.args = last.log[Len(last.log) - 1].value.v

C9_Witness ==
  /\ last.op = "fetch" /\ last.status = "return" /\ IsService(last.name)
  /\ registered[last.name].dependencies = Arr(<<"b", "c">>)
  /\ last.result.v.args[1].t = "object"
  /\ last.result.v.args[2] = Str("localhost")

\* C10: getTaggedService(tag) returns the definitions of the services
\* registered with that tag (null when no tag was given), each once, in the
\* order of their registration, and nothing else.
C10_TaggedServicesInRegistrationOrder ==
  last.op = "getTaggedService" =>
    LET res == last.result.v
        tagged == {n \in Names : IsService(n) /\ Default(registered[n].tag, Null) = last.tag}
    IN /\ Len(res) = Cardinality(tagged)
       /\ \A i \in 1..Len(res) :
            /\ res[i].name \in tagged
            /\ res[i].tag = last.tag
            /\ res[i].classname = registered[res[i].name].value
            /\ ~IsParameter(res[i].name)
       /\ \A i, j \in 1..Len(res) :
            i < j => registered[res[i].name].nth < registered[res[j].name].nth
       /\ \A n \in Names :
            IsService(n) /\ registered[n].tag = Undefined =>
              ((\E i \in 1..Len(res) : res[i].name = n) <=> last.tag = Null)

C10_Witness ==
  /\ last.op = "getTaggedService" /\ last.tag = Str("core")
  /\ Len(last.result.v) = 2
  /\ \E n \in Names : IsService(n) /\ registered[n].tag = Undefined /\ registered[n].nth = 2

C10_WitnessNoMatch ==
  /\ last.op = "getTaggedService" /\ last.tag = Str("web")
  /\ last.result.v = <<>> /\ services # <<>>

NoConstruction(log) == \A k \in 1..Len(log) : log[k].ev # "new"

\* C11: register on an unused name returns and adds the name to the services
\* when the value is a function with a non-empty name, to the parameters
\* otherwise, leaving the other registry as it was; a fetch of a parameter
\* holding an anonymous function returns that function and constructs nothing.
C11_RegisterDispatchesOnNamedFunction ==
  [][/\ (/\ last'.op = "register"
         /\ ~MapHas(parameters, last'.name)
         /\ ~MapHas(services, last'.name))
        => /\ last'.status = "return"
           /\ IF /\ registered'[last'.name].value.t = "function"
                 /\ registered'[last'.name].value.v # ""
              THEN /\ MapHas(services', last'.name)
                   /\ MapGet(services', last'.name).classname = registered'[last'.name].value
                   /\ parameters' = parameters
              ELSE /\ MapHas(parameters', last'.name)
                   /\ MapGet(parameters', last'.name) = registered'[last'.name].value
                   /\ services' = services
     /\ (/\ last'.op = "fetch"
         /\ MapHas(parameters, last'.name)
         /\ MapGet(parameters, last'.name) = Fn(""))
        => /\ last'.status = "return"
           /\ last'.result = Fn("")
           /\ NoConstruction(last'.log)
           /\ nextId' = nextId]_vars

C11_Witness ==
  /\ last.op = "fetch" /\ last.status = "return" /\ last.result = Fn("")
  /\ IsParameter(last.name)
  /\ \E n \in Names : IsService(n) /\ registered[n].value = Logger
  /\ \E n \in Names : IsParameter(n) /\ registered[n].value = Str("localhost")

\* A map keeps its entries, in place and unchanged, and may gain new ones.
OnlyGrows(before, after) ==
  /\ Len(after) >= Len(before)
  /\ \A i \in 1..Len(before) : after[i] = before[i]

\* C12: in every step both registries keep every entry they have, with the
\* same value and in the same place, and a key of one registry never becomes
\* a key of the other.
C12_RegisteredKeysStay ==
  [][/\ OnlyGrows(parameters, parameters')
     /\ OnlyGrows(services, services')
     /\ MapKeys(parameters) \cap MapKeys(services') = {}
     /\ MapKeys(services) \cap MapKeys(parameters') = {}]_vars

C12_Witness ==
  /\ last.op = "registerDefinition" /\ last.status = "ContainerDuplicateError"
  /\ IsService(last.name) /\ registered[last.name].tag = Str("core")
  /\ MapGet(services, last.name).tag = Str("core")
  /\ Len(services) = 2 /\ Len(parameters) = 1

\* The dependency graph the registrations describe.
DepsOf(n) ==
  IF IsService(n) THEN Default(registered[n].dependencies, Arr(<<>>)).v ELSE <<>>

Succ(n) == {DepsOf(n)[i] : i \in 1..Len(DepsOf(n))}

RECURSIVE ReachFrom(_)
ReachFrom(S) ==
  LET T == S \cup UNION {Succ(n) : n \in S}
  IN IF T = S THEN S ELSE ReachFrom(T)

Reachable(n) == ReachFrom({n})
OnCycle(n) == n \in ReachFrom(Succ(n))
CycleReachable(n) == \E m \in Reachable(n) : OnCycle(m)
Acyclic == \A n \in Names : ~OnCycle(n)

\* What a left-to-right, depth-first walk from n meets first: a key that is
\* not registered ("missing"), a service already on the path ("cycle"), or
\* neither ("ok").
RECURSIVE Walk(_, _)
RECURSIVE WalkAll(_, _, _)
Walk(n, path) ==
  IF n \in path THEN "cycle"
  ELSE IF IsService(n) THEN WalkAll(DepsOf(n), 1, path \cup {n})
  ELSE IF IsParameter(n) THEN "ok"
  ELSE "missing"

WalkAll(deps, i, path) ==
  IF i > Len(deps) THEN "ok"
  ELSE LET w == Walk(deps[i], path)
       IN IF w # "ok" THEN w ELSE WalkAll(deps, i + 1, path)

Completed == {"return", "ContainerNotFoundError", "ContainerDuplicateError"}

\* C13 as stated: a fetch from which a dependency cycle can be reached neither
\* returns nor throws the not-found or the duplicate error.
C13_CycleReachableNeverCompletes ==
  last.op = "fetch" /\ CycleReachable(last.name) => last.status \notin Completed

\* C13 amended: a fetch whose left-to-right, depth-first resolution comes back
\* to a service still being resolved, before it meets an unregistered key,
\* neither returns nor throws the not-found or the duplicate error: it
\* recurses until the call stack is exhausted, and caches nothing.
C13_CycleEnteredNeverCompletes ==
  last.op = "fetch" /\ Walk(last.name, {}) = "cycle" =>
    /\ last.status \notin Completed
    /\ last.status = "RangeError"
    /\ ~MapHas(cache, last.name)

C13_Witness ==
  /\ last.op = "fetch" /\ last.name = "a" /\ last.status = "RangeError"
  /\ registered["a"].dependencies = Arr(<<"b">>)
  /\ registered["b"].dependencies = Arr(<<"a">>)
  /\ IsService("a") /\ IsService("b")

\* C14: a registration returns or throws the duplicate error, getTaggedService
\* returns, and a fetch from which no dependency cycle can be reached returns
\* or throws the not-found error, for services registered shared or not.
C14_OnlyTheTwoNamedErrors ==
  /\ last.op \in RegistrationOps =>
       last.status \in {"return", "ContainerDuplicateError"}
  /\ last.op = "getTaggedService" => last.status = "return"
  /\ last.op = "fetch" /\ ~CycleReachable(last.name) =>
       last.status \in {"return", "ContainerNotFoundError"}

C14_Witness ==
  /\ last.op = "fetch" /\ last.status = "return"
  /\ IsService(last.name) /\ registered[last.name].shared = Bool(TRUE)
  /\ Len(returned[last.name]) >= 2
  /\ \E n \in Names : IsService(n) /\ registered[n].shared = Bool(FALSE)
                      /\ Len(returned[n]) >= 1

\* C15: every key of the cache names a service registered as shared, its entry
\* is an object of that service's class, and a step keeps every entry.
C15_CacheHoldsSharedInstances ==
  [][/\ \A i \in 1..Len(cache') :
          /\ IsService(cache'[i].key) /\ AskedShared(cache'[i].key)
          /\ cache'[i].value.t = "object"
          /\ cache'[i].value.v.cls = registered[cache'[i].key].value.v
     /\ OnlyGrows(cache, cache')]_vars

\* C15 never gets a case to speak of: no call leaves an entry in the cache.
C15_CacheStaysEmpty == cache = <<>>

\* C16: a fetch of a service registered as shared that was fetched
\* successfully before constructs nothing and fetches no dependency: its log
\* holds the fetch of the service itself and its return, nothing else.
C16_SharedServiceBuiltOnce ==
  \A n \in Names :
    (/\ IsService(n) /\ AskedShared(n)
     /\ last.op = "fetch" /\ last.name = n /\ last.status = "return"
     /\ Len(returned[n]) >= 2)
    => /\ NoConstruction(last.log)
       /\ \A k \in 1..Len(last.log) : last.log[k].name = n
       /\ last.result = returned[n][1]

IsRegistered(n) == registered[n].kind # "none"

\* C17: a fetch of a registered name from which no dependency cycle can be
\* reached returns or throws the not-found error, and it returns exactly when
\* every key reachable through the dependency lists is registered.
C17_AcyclicFetchTerminates ==
  (/\ last.op = "fetch" /\ IsRegistered(last.name)
   /\ ~CycleReachable(last.name))
  => /\ last.status \in {"return", "ContainerNotFoundError"}
     /\ last.status = "return" <=> \A k \in Reachable(last.name) : IsRegistered(k)

C17_Witness ==
  /\ last.op = "fetch" /\ last.name = "a" /\ last.status = "return"
  /\ registered["a"].dependencies = Arr(<<"b", "c">>)
  /\ IsService("b") /\ registered["b"].dependencies = Arr(<<>>)
  /\ IsParameter("c")

\* C18: a registration on an unused name returns whether or not the keys of
\* its dependency list are registered; a fetch of a service throws the
\* not-found error while one of its dependencies is unregistered, and returns
\* when every key reachable from it is registered and no cycle is reachable,
\* in whatever order the registrations were made.
C18_RegistrationAndFetchInterleave ==
  [][/\ (/\ last'.op \in RegistrationOps
         /\ ~MapHas(parameters, last'.name)
         /\ ~MapHas(services, last'.name))
        => /\ last'.status = "return"
           /\ registered'[last'.name].kind # "none"
     /\ (/\ last'.op = "fetch" /\ IsService(last'.name)
         /\ ~CycleReachable(last'.name)
         /\ \E k \in Succ(last'.name) : ~IsRegistered(k))
        => last'.status = "ContainerNotFoundError"
     /\ (/\ last'.op = "fetch" /\ IsService(last'.name)
         /\ ~CycleReachable(last'.name)
         /\ \A k \in Reachable(last'.name) : IsRegistered(k))
        => last'.status = "return"]_vars

\* A service was fetched successfully although the service it depends on was
\* registered after it.
C18_Witness ==
  /\ last.op = "fetch" /\ last.name = "a" /\ last.status = "return"
  /\ IsService("a") /\ registered["a"].dependencies = Arr(<<"b">>)
  /\ IsService("b") /\ registered["b"].nth > registered["a"].nth

\* C19: a fetch and a getTaggedService leave both registries as they were,
\* whether they return or throw; getTaggedService leaves the cache as it was
\* and constructs nothing; a registry changes only in a registration that
\* returns.
C19_LookupsLeaveRegistries ==
  [][/\ last'.op \in {"fetch", "getTaggedService"}
        => parameters' = parameters /\ services' = services
     /\ last'.op = "getTaggedService"
        => cache' = cache /\ nextId' = nextId /\ returned' = returned
     /\ (parameters' # parameters \/ services' # services)
        => last'.op \in RegistrationOps /\ last'.status = "return"]_vars

\* getTaggedService handed out a definition after an instance had been built,
\* with both registries in use.
C19_Witness ==
  /\ last.op = "getTaggedService" /\ last.result.v # <<>>
  /\ Len(services) = 2 /\ Len(parameters) = 1
  /\ nextId >= 1

\* C20: when the left-to-right, depth-first resolution of a service s meets an
\* unregistered key before it comes back to a service being resolved, the
\* fetch of s throws the not-found error naming that key, which is reachable
\* from s, unregistered and not s; the fetch of that key is the last thing the
\* call did, so no later dependency was fetched; s was not constructed and is
\* not in the cache. A fetch of a service that throws the not-found error
\* always does so in this way.
C20_MissingDependencyNamedAndNothingBuilt ==
  (last.op = "fetch" /\ IsService(last.name)) =>
    /\ Walk(last.name, {}) = "missing" <=> last.status = "ContainerNotFoundError"
    /\ last.status = "ContainerNotFoundError" =>
         /\ last.result.t = "string"
         /\ last.result.v \in Reachable(last.name) \ {last.name}
         /\ ~IsRegistered(last.result.v)
         /\ last.log[Len(last.log)].ev = "fetch"
         /\ last.log[Len(last.log)].name = last.result.v
         /\ \A k \in 1..Len(last.log) :
              /\ last.log[k].ev = "new" => last.log[k].name # last.name
              /\ last.log[k].name = last.result.v => k = Len(last.log)
         /\ ~MapHas(cache, last.name)

\* The first of two dependencies is missing and the second is registered.
C20_Witness ==
  /\ last.op = "fetch" /\ last.name = "a"
  /\ last.status = "ContainerNotFoundError" /\ last.result = Str("b")
  /\ IsService("a") /\ registered["a"].dependencies = Arr(<<"b", "c">>)
  /\ ~IsRegistered("b") /\ IsRegistered("c")

\* The missing key is two levels down, below a dependency that is registered.
C20_WitnessTransitive ==
  /\ last.op = "fetch" /\ last.name = "c"
  /\ last.status = "ContainerNotFoundError" /\ last.result = Str("b")
  /\ IsService("c") /\ registered["c"].dependencies = Arr(<<"a">>)
  /\ IsService("a") /\ registered["a"].dependencies = Arr(<<"b">>)

====
